---- MODULE Spec2Model ----
(***************************************************************************)
(* A model of synk's sync engine (src/synk/sync.py) and of the path        *)
(* validation it relies on (src/synk/utils.py): plan_syncs, apply_plan     *)
(* with its rollback, commit_changes, push_changes and the sync_all run    *)
(* that strings them together behind three confirmation gates.             *)
(*                                                                         *)
(* The filesystem is a function from absolute paths to what is found       *)
(* there; a git repository is modelled by its index and its HEAD, one      *)
(* entry per tracked path.  External commands (file copies, git add,       *)
(* git restore, git commit, git push) either succeed or raise, and the     *)
(* model takes both outcomes wherever the command can fail.                *)
(***************************************************************************)
EXTENDS Integers, Sequences, FiniteSets, TLC

VARIABLES
    cfg,            \* profile name -> list of sync definitions (the dict in memory)
    disk,           \* the configuration last written to config.json
    ret,            \* what the last configuration edit returned and printed
    shown,          \* what show_plan printed last: the tagged lines and the count
    profile_name,   \* the profile sync_all was called for
    fs,             \* absolute path -> what the filesystem holds there
    index,          \* tracked path -> content in the git index
    head,           \* tracked path -> content in the last commit
    pc,             \* where the sync_all run stands
    plan,           \* the plan of the run
    item,           \* apply_plan: position in the plan
    step,           \* apply_plan: next step for the current item / rollback phase
    backups,        \* apply_plan: list of <<original_path, backup_path>>
    tmp,            \* the temporary files made by mkstemp, by number
    staged_files,   \* apply_plan: list of <<repo, path>> added to git
    cursor,         \* rollback: position in backups / staged_files
    error,          \* the exception in flight, or NoError
    todo,           \* commit_changes / push_changes: repositories still to visit
    log,            \* every external command issued by the run, in order
    fs0,            \* the filesystem when apply_plan started
    index0          \* the index when apply_plan started

vars == <<cfg, disk, ret, shown, profile_name, fs, index, head, pc, plan, item, step, backups, tmp,
          staged_files, cursor, error, todo, log, fs0, index0>>

(***************************************************************************)
(* Bounds of the model.                                                    *)
(***************************************************************************)
\* longest list of sync definitions a profile holds
MaxSyncs == 2
\* number of distinct file contents
MaxContent == 2

(***************************************************************************)
(* What a path holds: nothing, a directory, or a regular file with some    *)
(* content.                                                                *)
(***************************************************************************)
Absent == [kind |-> "absent", data |-> 0]
Directory == [kind |-> "dir", data |-> 0]
File(n) == [kind |-> "file", data |-> n]
Files == {File(n) : n \in 1..MaxContent}

(***************************************************************************)
(* The directory tree the model runs in.  /r1 and /r2 are the top-level    *)
(* directories of two git repositories, /home is outside any repository    *)
(* and is the directory the program was started in, /gone does not exist.  *)
(***************************************************************************)
None == "None"
Cwd == "/home"
ExistingDirs == {"/", "/home", "/r1", "/r1/d", "/r2", "/r2/d"}
AbsPaths == {"/home/s", "/r1/d/a", "/r2/d/b", "/r2/t", "/gone/n"}
RepoPaths == {"/r1/d/a", "/r2/d/b", "/r2/t"}

\* the paths a user may have typed into a sync definition
SourceNames == {"~/s", "/r2/d/b"}
DestinationNames == {"/r1/d/a", "/r2/d/b", "/r2/t", "/gone/n", "~/s"}

\* os.path.expanduser: a leading ~ becomes the home directory
expanduser(p) == IF p = "~/s" THEN "/home/s" ELSE p

\* os.path.abspath: a relative path is joined to the current directory of
\* the process (Cwd); an absolute path is returned as it is
abspath(p) == IF p = ".git" THEN "/home/.git" ELSE p

\* os.path.dirname; the parent of the filesystem root is the root itself
dirname(p) ==
    CASE p = "/home/s" -> "/home"
      [] p = "/r1/d/a" -> "/r1/d"
      [] p = "/r2/d/b" -> "/r2/d"
      [] p = "/r2/t" -> "/r2"
      [] p = "/gone/n" -> "/gone"
      [] p = "/r1/d" -> "/r1"
      [] p = "/r2/d" -> "/r2"
      [] p = "/r1/.git" -> "/r1"
      [] p = "/r2/.git" -> "/r2"
      [] p = "/home/.git" -> "/home"
      [] OTHER -> "/"

\* the top-level directory of the work tree a directory lies in
WorkTreeOf(d) ==
    CASE d \in {"/r1", "/r1/d"} -> "/r1"
      [] d \in {"/r2", "/r2/d"} -> "/r2"
      [] OTHER -> None

\* `git rev-parse --git-dir` run in directory d: ".git" at the top level of
\* a work tree, the absolute path of the git directory below it, and a
\* non-zero exit ("") outside any work tree
git_rev_parse_git_dir(d) ==
    IF WorkTreeOf(d) = None THEN ""
    ELSE IF WorkTreeOf(d) = d THEN ".git"
    ELSE IF WorkTreeOf(d) = "/r1" THEN "/r1/.git" ELSE "/r2/.git"

(***************************************************************************)
(* File utilities of utils.py                                              *)
(***************************************************************************)
file_exists(f, p) == f[p].kind = "file"

path_exists(f, p) == f[p].kind # "absent"

file_dir_exists(p) == dirname(p) \in ExistingDirs

Diverges == "DIVERGES"

\* The upward walk of locate_git_repo.  The loop leaves only when the
\* current directory is empty or not a directory, and the parent of "/"
\* is "/": once the walk stands at the root outside a work tree it stays
\* there for ever, which the model reports as Diverges.
RECURSIVE locate_walk(_)
locate_walk(current_dir) ==
    IF ~(current_dir # "" /\ current_dir \in ExistingDirs) THEN None
    ELSE IF git_rev_parse_git_dir(current_dir) # ""
         THEN dirname(abspath(git_rev_parse_git_dir(current_dir)))
    ELSE IF dirname(current_dir) = current_dir THEN Diverges
    ELSE locate_walk(dirname(current_dir))

locate_git_repo(file_path) == locate_walk(dirname(file_path))

is_valid_source_file(f, source_file) ==
    LET p == abspath(expanduser(source_file))
    IN  <<p, file_exists(f, p)>>

is_valid_destination_file(f, dst_file) ==
    LET p == abspath(expanduser(dst_file))
        git_repo_path == IF file_dir_exists(p) THEN locate_git_repo(p) ELSE None
    IN  \* no value is returned when the walk does not end; the third component says so
        IF file_dir_exists(p) /\ git_repo_path = Diverges THEN <<p, 0, Diverges>>
        ELSE IF file_dir_exists(p) /\ git_repo_path # None
             THEN IF file_exists(f, p) THEN <<p, 2, git_repo_path>>
                  ELSE <<p, 1, git_repo_path>>
        ELSE <<p, 0, None>>

\* filecmp.cmp(a, b, shallow=False): false unless both are regular files
filecmp(f, a, b) == f[a].kind = "file" /\ f[b].kind = "file" /\ f[a].data = f[b].data

\* a prompt that takes every answer but "n" for a yes
confirm_unless_no(ans) == ans # "n"

\* utils.confirm: the answer is stripped and lower-cased, and only "y" is yes
Answers == {"y", " Y", "n", "yes", ""}
strip_lower(ans) == IF ans = " Y" THEN "y" ELSE ans
confirm(ans) == strip_lower(ans) = "y"

(***************************************************************************)
(* plan_syncs                                                              *)
(***************************************************************************)
\* the types let through with skipped items among them
ActionableTypes_with_skipped == {"new", "modified", "skipped"}

ActionableTypes == {"new", "modified"}

\* the body of the planning loop for one sync definition; a definition whose
\* destination validation never returns yields no item at all
plan_item(f, sync_entry) ==
    LET src == is_valid_source_file(f, sync_entry.source_file)
        dst == is_valid_destination_file(f, sync_entry.destination_repo_file)
    IN  IF ~src[2]
        THEN [source |-> src[1], destination |-> sync_entry.destination_repo_file,
              type |-> "error", reason |-> "Source does not exist"]
        ELSE IF dst[3] = Diverges
        THEN [type |-> Diverges]
        ELSE IF dst[2] = 0 \/ dst[3] = None
        THEN [source |-> src[1], destination |-> dst[1],
              type |-> "error", reason |-> "Destination not in git repo"]
        ELSE IF ~path_exists(f, dst[1])
        THEN [source |-> src[1], destination |-> dst[1],
              type |-> "new", git_repo |-> dst[3]]
        ELSE IF filecmp(f, src[1], dst[1])
        THEN [source |-> src[1], destination |-> dst[1],
              type |-> "skipped", git_repo |-> dst[3]]
        ELSE [source |-> src[1], destination |-> dst[1],
              type |-> "modified", git_repo |-> dst[3]]

profile_syncs(c, name) == c[name]

\* plan_syncs does not return when the planning of some definition does not
plan_syncs_returns(c, name, f) ==
    \A k \in 1..Len(profile_syncs(c, name)) :
        plan_item(f, profile_syncs(c, name)[k]).type # Diverges

plan_syncs(c, name, f) ==
    [k \in 1..Len(profile_syncs(c, name)) |->
        plan_item(f, profile_syncs(c, name)[k])]

(***************************************************************************)
(* The initial states: one profile, any list of at most MaxSyncs distinct  *)
(* sync definitions, any filesystem, and repositories whose index is       *)
(* either clean or holds a change staged before the run.                   *)
(***************************************************************************)
NothingShown == [lines |-> <<>>, total |-> 0]

NoResult == [value |-> "", said |-> ""]

NoError == [raised |-> FALSE, at |-> "", item |-> 0]

Syncs == [source_file : SourceNames, destination_repo_file : DestinationNames]

SyncLists ==
    {l \in UNION {[1..n -> Syncs] : n \in 0..MaxSyncs} :
        \A a, b \in 1..Len(l) : a # b => l[a] # l[b]}

ProfileNames == {"p"}

\* the filesystems a run may start from: /gone/n cannot exist, and only
\* /r1/d/a may be a directory
InitialFs ==
    {f \in [AbsPaths -> Files \cup {Absent, Directory}] :
        /\ f["/gone/n"] = Absent
        /\ f["/r2/t"] = Absent
        /\ f["/home/s"] # Directory
        /\ f["/r2/d/b"] # Directory}

\* the last commits a run may start from: /r1/d/a committed or not
InitialHead ==
    {h \in [RepoPaths -> {Absent, File(1)}] :
        \A p \in RepoPaths \ {"/r1/d/a"} : h[p] = Absent}

\* the index is clean, or holds a change to /r1/d/a staged before the run
InitialIndex(h) ==
    {x \in [RepoPaths -> {Absent, File(1), File(MaxContent)}] :
        /\ \A p \in RepoPaths \ {"/r1/d/a"} : x[p] = h[p]
        /\ x["/r1/d/a"] \in {h["/r1/d/a"], File(MaxContent)}}

Init ==
    /\ cfg \in [ProfileNames -> SyncLists]
    /\ disk = cfg
    /\ ret = NoResult
    /\ shown = NothingShown
    /\ profile_name = ""
    /\ fs \in InitialFs
    /\ head \in InitialHead
    /\ index \in InitialIndex(head)
    /\ pc = "menu"
    /\ plan = <<>>
    /\ item = 0
    /\ step = ""
    /\ backups = <<>>
    /\ tmp = <<>>
    /\ staged_files = <<>>
    /\ cursor = 0
    /\ error = NoError
    /\ todo = {}
    /\ log = <<>>
    /\ fs0 = fs
    /\ index0 = index

runVars == <<item, step, backups, tmp, staged_files, cursor, error, todo, fs0, index0>>

(***************************************************************************)
(* show_plan                                                               *)
(***************************************************************************)
\* the line printed for one plan item; an item of no known type prints none
show_line(it) ==
    CASE it.type = "new" ->
            <<[tag |-> "[NEW]", source |-> it.source, destination |-> it.destination, reason |-> ""]>>
      [] it.type = "modified" ->
            <<[tag |-> "[MODIFIED]", source |-> it.source, destination |-> it.destination, reason |-> ""]>>
      [] it.type = "skipped" ->
            <<[tag |-> "[SKIPPED]", source |-> it.source, destination |-> it.destination, reason |-> ""]>>
      [] it.type = "error" ->
            <<[tag |-> "[ERROR]", source |-> it.source, destination |-> it.destination,
               reason |-> it.reason]>>
      [] OTHER -> <<>>

RECURSIVE show_lines(_)
show_lines(pl) == IF pl = <<>> THEN <<>> ELSE show_line(Head(pl)) \o show_lines(Tail(pl))

\* a report whose count is the number of lines printed
show_plan_counts_lines(pl) ==
    [lines |-> show_lines(pl), total |-> Len(show_lines(pl))]

\* the lines, then "Total changes to apply: total"
show_plan(pl) ==
    [lines |-> show_lines(pl),
     total |-> Cardinality({k \in 1..Len(pl) : pl[k].type \in {"new", "modified"}})]

(***************************************************************************)
(* sync_all: plan, show, and the first confirmation gate                   *)
(***************************************************************************)
\* sync_all up to its first prompt: the plan is computed and shown.  When
\* plan_syncs does not return the run stays inside it.
SyncAll_creates_new_destinations(name) ==
    /\ pc = "menu"
    /\ profile_name' = name
    /\ IF plan_syncs_returns(cfg, name, fs)
       THEN /\ plan' = plan_syncs(cfg, name, fs)
            /\ pc' = "gate_apply"
       ELSE /\ plan' = plan
            /\ pc' = "hung"
    /\ shown' = IF pc' = "gate_apply" THEN show_plan(plan') ELSE shown
    /\ fs' = [p \in DOMAIN fs |->
                IF \E k \in 1..Len(plan') : plan'[k].type = "new" /\ plan'[k].destination = p
                THEN File(1) ELSE fs[p]]
    /\ UNCHANGED <<cfg, disk, ret, index, head, log>>
    /\ UNCHANGED runVars

SyncAll(name) ==
    /\ pc = "menu"
    /\ profile_name' = name
    /\ IF plan_syncs_returns(cfg, name, fs)
       THEN /\ plan' = plan_syncs(cfg, name, fs)
            /\ pc' = "gate_apply"
       ELSE /\ plan' = plan
            /\ pc' = "hung"
    /\ shown' = IF pc' = "gate_apply" THEN show_plan(plan') ELSE shown
    /\ UNCHANGED <<cfg, disk, ret, fs, index, head, log>>
    /\ UNCHANGED runVars

\* "Proceed with these changes?"; apply_plan starts on yes
ConfirmApply(ans) ==
    /\ pc = "gate_apply"
    /\ IF confirm(ans)
       THEN /\ pc' = "apply"
            /\ item' = 1
            /\ step' = "backup"
            /\ backups' = <<>>
            /\ staged_files' = <<>>
            /\ fs0' = fs
            /\ index0' = index
       ELSE /\ pc' = "aborted"
            /\ UNCHANGED <<item, step, backups, staged_files, fs0, index0>>
    /\ UNCHANGED <<cfg, disk, ret, shown, profile_name, fs, index, head, plan, tmp, cursor, error, todo, log>>

(***************************************************************************)
(* apply_plan: the loop over the plan                                      *)
(***************************************************************************)
\* one external command of the run, and what the program printed for it
Cmd(op, i, path, cwd, ok, said) ==
    [op |-> op, item |-> i, path |-> path, cwd |-> cwd, ok |-> ok, said |-> said]

\* an exception leaves the try block: the except clause starts the rollback
Raise(at) ==
    /\ pc' = "rollback"
    /\ step' = "restore"
    /\ cursor' = 1
    /\ error' = [raised |-> TRUE, at |-> at, item |-> item]

\* the type test of the apply loop, letting only new items through
Actionable_only_new(it) == it.type = "new"

\* the type test of the apply loop, stopping only error items
Actionable_all_but_error(it) == it.type # "error"

Actionable(it) == it.type \in ActionableTypes

\* `git add path` run in directory repo can only work when repo lies in the
\* work tree that holds the path
CanStage(repo, path) ==
    /\ WorkTreeOf(repo) # None
    /\ WorkTreeOf(repo) = WorkTreeOf(dirname(path))

\* shutil.copy2(src, dst) of a regular file over a file or a free name
CanCopy(f, src, dst) ==
    /\ f[src].kind = "file"
    /\ f[dst].kind # "dir"
    /\ src # dst

\* copy2 with its arguments exchanged
copy2_swapped(f, src, dst) == [f EXCEPT ![src] = f[dst]]

\* shutil.copy2(src, dst): dst holds what src holds
copy2(f, src, dst) == [f EXCEPT ![dst] = f[src]]

\* an item that is neither new nor modified: continue
ApplySkip ==
    /\ pc = "apply" /\ step = "backup"
    /\ item <= Len(plan)
    /\ ~Actionable(plan[item])
    /\ item' = item + 1
    /\ UNCHANGED <<cfg, disk, ret, shown, profile_name, fs, index, head, pc, plan, step, backups, tmp,
                   staged_files, cursor, error, todo, log, fs0, index0>>

\* a backup that is made but not recorded in the list
ApplyBackup_unrecorded(ok) ==
    /\ pc = "apply" /\ step = "backup"
    /\ item <= Len(plan)
    /\ Actionable(plan[item])
    /\ LET dst == plan[item].destination
       IN  IF path_exists(fs, dst)
           THEN IF ok
                THEN /\ fs[dst].kind = "file"
                     /\ tmp' = Append(tmp, fs[dst])
                     /\ backups' = backups
                     /\ step' = "copy"
                     /\ log' = Append(log, Cmd("backup", item, dst, "", TRUE, ""))
                     /\ UNCHANGED <<pc, cursor, error>>
                ELSE /\ Raise("backup")
                     /\ log' = Append(log, Cmd("backup", item, dst, "", FALSE, "error"))
                     /\ UNCHANGED <<tmp, backups>>
           ELSE /\ ok
                /\ step' = "copy"
                /\ UNCHANGED <<pc, cursor, error, tmp, backups, log>>
    /\ UNCHANGED <<cfg, disk, ret, shown, profile_name, fs, index, head, plan, item, staged_files, todo, fs0, index0>>

\* backup of an existing destination into a fresh temporary file
ApplyBackup(ok) ==
    /\ pc = "apply" /\ step = "backup"
    /\ item <= Len(plan)
    /\ Actionable(plan[item])
    /\ LET dst == plan[item].destination
       IN  IF path_exists(fs, dst)
           THEN IF ok
                THEN /\ fs[dst].kind = "file"
                     /\ tmp' = Append(tmp, fs[dst])
                     /\ backups' = Append(backups, <<dst, Len(tmp) + 1>>)
                     /\ step' = "copy"
                     /\ log' = Append(log, Cmd("backup", item, dst, "", TRUE, ""))
                     /\ UNCHANGED <<pc, cursor, error>>
                ELSE /\ Raise("backup")
                     /\ log' = Append(log, Cmd("backup", item, dst, "", FALSE, "error"))
                     /\ UNCHANGED <<tmp, backups>>
           ELSE /\ ok
                /\ step' = "copy"
                /\ UNCHANGED <<pc, cursor, error, tmp, backups, log>>
    /\ UNCHANGED <<cfg, disk, ret, shown, profile_name, fs, index, head, plan, item, staged_files, todo, fs0, index0>>

\* copy of the source over the destination; a copy that raises has either
\* written nothing or has written the content and failed on the metadata
ApplyCopy(outcome) ==
    /\ pc = "apply" /\ step = "copy"
    /\ LET src == plan[item].source
           dst == plan[item].destination
       IN  CASE outcome = "ok" ->
                    /\ CanCopy(fs, src, dst)
                    /\ fs' = copy2(fs, src, dst)
                    /\ step' = "stage"
                    /\ log' = Append(log, Cmd("copy", item, dst, "", TRUE, ""))
                    /\ UNCHANGED <<pc, cursor, error>>
             [] outcome = "raised before writing" ->
                    /\ Raise("copy")
                    /\ log' = Append(log, Cmd("copy", item, dst, "", FALSE, "error"))
                    /\ UNCHANGED fs
             [] outcome = "raised after writing" ->
                    /\ CanCopy(fs, src, dst)
                    /\ fs' = copy2(fs, src, dst)
                    /\ Raise("copy")
                    /\ log' = Append(log, Cmd("copy", item, dst, "", FALSE, "error"))
    /\ UNCHANGED <<cfg, disk, ret, shown, profile_name, index, head, plan, item, backups, tmp, staged_files,
                   todo, fs0, index0>>

CopyOutcomes == {"ok", "raised before writing", "raised after writing"}

\* a git add whose failure is passed over: the loop goes on to the next item
ApplyStage_continues_on_failure(ok) ==
    /\ pc = "apply" /\ step = "stage"
    /\ LET dst == plan[item].destination
           repo == plan[item].git_repo
       IN  IF ok
           THEN /\ CanStage(repo, dst)
                /\ index' = [index EXCEPT ![dst] = fs[dst]]
                /\ staged_files' = Append(staged_files, <<repo, dst>>)
                /\ log' = Append(log, Cmd("stage", item, dst, repo, TRUE, "success"))
           ELSE /\ log' = Append(log, Cmd("stage", item, dst, repo, FALSE, "error"))
                /\ UNCHANGED <<index, staged_files>>
    /\ item' = item + 1
    /\ step' = "backup"
    /\ UNCHANGED <<pc, cursor, error>>
    /\ UNCHANGED <<cfg, disk, ret, shown, profile_name, fs, head, plan, backups, tmp, todo, fs0, index0>>

\* git add of the destination, run in the item's git_repo
ApplyStage(ok) ==
    /\ pc = "apply" /\ step = "stage"
    /\ LET dst == plan[item].destination
           repo == plan[item].git_repo
       IN  IF ok
           THEN /\ CanStage(repo, dst)
                /\ index' = [index EXCEPT ![dst] = fs[dst]]
                /\ staged_files' = Append(staged_files, <<repo, dst>>)
                /\ item' = item + 1
                /\ step' = "backup"
                /\ log' = Append(log, Cmd("stage", item, dst, repo, TRUE, "success"))
                /\ UNCHANGED <<pc, cursor, error>>
           ELSE /\ Raise("stage")
                /\ log' = Append(log, Cmd("stage", item, dst, repo, FALSE, "error"))
                /\ UNCHANGED <<index, staged_files, item>>
    /\ UNCHANGED <<cfg, disk, ret, shown, profile_name, fs, head, plan, backups, tmp, todo, fs0, index0>>

\* the loop is over: apply_plan returns to sync_all
ApplyReturn ==
    /\ pc = "apply" /\ step = "backup"
    /\ item > Len(plan)
    /\ pc' = "gate_commit"
    /\ UNCHANGED <<cfg, disk, ret, shown, profile_name, fs, index, head, plan, item, step, backups, tmp,
                   staged_files, cursor, error, todo, log, fs0, index0>>

(***************************************************************************)
(* apply_plan: the except clause                                           *)
(***************************************************************************)
\* restore one backup; a restore that raises leaves the except clause with
\* its own exception, and nothing after it runs
RestoreBackup(ok) ==
    /\ pc = "rollback" /\ step = "restore"
    /\ cursor <= Len(backups)
    /\ LET orig == backups[cursor][1]
           backup == backups[cursor][2]
       IN  IF ok
           THEN /\ fs' = [fs EXCEPT ![orig] = tmp[backup]]
                /\ cursor' = cursor + 1
                /\ log' = Append(log, Cmd("restore", cursor, orig, "", TRUE, "warning"))
                /\ UNCHANGED <<pc, error>>
           ELSE /\ pc' = "raised"
                /\ error' = [raised |-> TRUE, at |-> "restore", item |-> error.item]
                /\ log' = Append(log, Cmd("restore", cursor, orig, "", FALSE, ""))
                /\ UNCHANGED <<fs, cursor>>
    /\ UNCHANGED <<cfg, disk, ret, shown, profile_name, index, head, plan, item, step, backups, tmp,
                   staged_files, todo, fs0, index0>>

\* all backups restored: on to the staged files
RestoreDone ==
    /\ pc = "rollback" /\ step = "restore"
    /\ cursor > Len(backups)
    /\ step' = "unstage"
    /\ cursor' = 1
    /\ UNCHANGED <<cfg, disk, ret, shown, profile_name, fs, index, head, pc, plan, item, backups, tmp,
                   staged_files, error, todo, log, fs0, index0>>

\* git restore --staged of one staged file; a failure is printed and the
\* loop goes on
Unstage(ok) ==
    /\ pc = "rollback" /\ step = "unstage"
    /\ cursor <= Len(staged_files)
    /\ LET repo == staged_files[cursor][1]
           staged == staged_files[cursor][2]
       IN  IF ok
           THEN /\ index' = [index EXCEPT ![staged] = head[staged]]
                /\ log' = Append(log, Cmd("unstage", cursor, staged, repo, TRUE, "warning"))
           ELSE /\ index' = index
                /\ log' = Append(log, Cmd("unstage", cursor, staged, repo, FALSE, "error"))
    /\ cursor' = cursor + 1
    /\ UNCHANGED <<cfg, disk, ret, shown, profile_name, fs, head, pc, plan, item, step, backups, tmp,
                   staged_files, error, todo, fs0, index0>>

\* the except clause without its final raise: apply_plan returns normally
Reraise_swallowed ==
    /\ pc = "rollback" /\ step = "unstage"
    /\ cursor > Len(staged_files)
    /\ pc' = "gate_commit"
    /\ UNCHANGED <<cfg, disk, ret, shown, profile_name, fs, index, head, plan, item, step, backups, tmp,
                   staged_files, cursor, error, todo, log, fs0, index0>>

\* "Sync aborted with rollback." and the bare raise: the exception of the
\* try block leaves apply_plan and, uncaught, sync_all
Reraise ==
    /\ pc = "rollback" /\ step = "unstage"
    /\ cursor > Len(staged_files)
    /\ pc' = "raised"
    /\ UNCHANGED <<cfg, disk, ret, shown, profile_name, fs, index, head, plan, item, step, backups, tmp,
                   staged_files, cursor, error, todo, log, fs0, index0>>

(***************************************************************************)
(* commit_changes and push_changes                                         *)
(***************************************************************************)
\* the repositories of every item that has one, skipped items included
touched_repos_of_all(pl) ==
    {pl[k].git_repo : k \in {j \in 1..Len(pl) : pl[j].type # "error"}}

\* the set of repositories of the new and modified items of a plan
touched_repos(pl) ==
    {pl[k].git_repo : k \in {j \in 1..Len(pl) : pl[j].type \in ActionableTypes}}

\* the tracked paths of the work tree that directory repo lies in
PathsOf(repo) ==
    {p \in RepoPaths : WorkTreeOf(repo) # None /\ WorkTreeOf(dirname(p)) = WorkTreeOf(repo)}

\* `git commit` exits non-zero when nothing is staged
CanCommit(repo) == \E p \in PathsOf(repo) : index[p] # head[p]

\* "Commit these changes?"
ConfirmCommit(ans) ==
    /\ pc = "gate_commit"
    /\ IF confirm(ans)
       THEN /\ pc' = "commit"
            /\ todo' = touched_repos(plan)
       ELSE /\ pc' = "skipped_commit"
            /\ todo' = todo
    /\ UNCHANGED <<cfg, disk, ret, shown, profile_name, fs, index, head, plan, item, step, backups, tmp,
                   staged_files, cursor, error, log, fs0, index0>>

\* commit_changes undoing the staging of a repository whose commit failed
CommitRepo_unstages_on_failure(repo, ok) ==
    /\ pc = "commit"
    /\ repo \in todo
    /\ IF ok
       THEN /\ \E p \in {q \in RepoPaths : WorkTreeOf(dirname(q)) = WorkTreeOf(repo)} :
                   index[p] # head[p]
            /\ head' = [p \in RepoPaths |->
                          IF WorkTreeOf(dirname(p)) = WorkTreeOf(repo) THEN index[p] ELSE head[p]]
            /\ index' = index
            /\ log' = Append(log, [op |-> "commit", item |-> 0, path |-> "", cwd |-> repo,
                                   ok |-> TRUE, said |-> "success"])
       ELSE /\ head' = head
            /\ index' = [p \in RepoPaths |->
                           IF WorkTreeOf(dirname(p)) = WorkTreeOf(repo) THEN head[p] ELSE index[p]]
            /\ log' = Append(log, [op |-> "commit", item |-> 0, path |-> "", cwd |-> repo,
                                   ok |-> FALSE, said |-> "warning"])
    /\ todo' = todo \ {repo}
    /\ UNCHANGED <<cfg, disk, ret, shown, profile_name, fs, pc, plan, item, step, backups, tmp,
                   staged_files, cursor, error, fs0, index0>>

\* git commit in one repository of the set; CalledProcessError is caught
\* and printed as a warning
CommitRepo(repo, ok) ==
    /\ pc = "commit"
    /\ repo \in todo
    /\ IF ok
       THEN /\ CanCommit(repo)
            /\ head' = [p \in RepoPaths |-> IF p \in PathsOf(repo) THEN index[p] ELSE head[p]]
            /\ log' = Append(log, Cmd("commit", 0, "", repo, TRUE, "success"))
       ELSE /\ head' = head
            /\ log' = Append(log, Cmd("commit", 0, "", repo, FALSE, "warning"))
    /\ todo' = todo \ {repo}
    /\ UNCHANGED <<cfg, disk, ret, shown, profile_name, fs, index, pc, plan, item, step, backups, tmp,
                   staged_files, cursor, error, fs0, index0>>

\* commit_changes returns
CommitReturn ==
    /\ pc = "commit"
    /\ todo = {}
    /\ pc' = "gate_push"
    /\ UNCHANGED <<cfg, disk, ret, shown, profile_name, fs, index, head, plan, item, step, backups, tmp,
                   staged_files, cursor, error, todo, log, fs0, index0>>

\* "Push to remote?"
ConfirmPush(ans) ==
    /\ pc = "gate_push"
    /\ IF confirm(ans)
       THEN /\ pc' = "push"
            /\ todo' = touched_repos(plan)
       ELSE /\ pc' = "skipped_push"
            /\ todo' = todo
    /\ UNCHANGED <<cfg, disk, ret, shown, profile_name, fs, index, head, plan, item, step, backups, tmp,
                   staged_files, cursor, error, log, fs0, index0>>

\* push_changes giving up on the first failed push
PushRepo_stops_on_failure(repo, ok) ==
    /\ pc = "push"
    /\ repo \in todo
    /\ log' = Append(log, Cmd("push", 0, "", repo, ok, IF ok THEN "success" ELSE "error"))
    /\ todo' = IF ok THEN todo \ {repo} ELSE {}
    /\ UNCHANGED <<cfg, disk, ret, shown, profile_name, fs, index, head, pc, plan, item, step, backups, tmp,
                   staged_files, cursor, error, fs0, index0>>

\* git push in one repository of the set; CalledProcessError is caught and
\* printed as an error
PushRepo(repo, ok) ==
    /\ pc = "push"
    /\ repo \in todo
    /\ log' = Append(log, Cmd("push", 0, "", repo, ok, IF ok THEN "success" ELSE "error"))
    /\ todo' = todo \ {repo}
    /\ UNCHANGED <<cfg, disk, ret, shown, profile_name, fs, index, head, pc, plan, item, step, backups, tmp,
                   staged_files, cursor, error, fs0, index0>>

\* push_changes, and with it sync_all, returns
PushReturn ==
    /\ pc = "push"
    /\ todo = {}
    /\ pc' = "pushed"
    /\ UNCHANGED <<cfg, disk, ret, shown, profile_name, fs, index, head, plan, item, step, backups, tmp,
                   staged_files, cursor, error, todo, log, fs0, index0>>

(***************************************************************************)
(* The specification                                                       *)
(***************************************************************************)
Next ==
    \/ \E name \in DOMAIN cfg : SyncAll(name)
    \/ \E ans \in Answers : ConfirmApply(ans)
    \/ ApplySkip
    \/ \E ok \in BOOLEAN : ApplyBackup(ok)
    \/ \E outcome \in CopyOutcomes : ApplyCopy(outcome)
    \/ \E ok \in BOOLEAN : ApplyStage(ok)
    \/ ApplyReturn
    \/ \E ok \in BOOLEAN : RestoreBackup(ok)
    \/ RestoreDone
    \/ \E ok \in BOOLEAN : Unstage(ok)
    \/ Reraise
    \/ \E ans \in Answers : ConfirmCommit(ans)
    \/ \E repo \in ExistingDirs, ok \in BOOLEAN : CommitRepo(repo, ok)
    \/ CommitReturn
    \/ \E ans \in Answers : ConfirmPush(ans)
    \/ \E repo \in ExistingDirs, ok \in BOOLEAN : PushRepo(repo, ok)
    \/ PushReturn

Spec == Init /\ [][Next]_vars

(***************************************************************************)
(* Editing the configuration: cfg_add_profile, cfg_add_sync and            *)
(* cfg_remove_sync of utils.py.  Each changes the dict in memory first     *)
(* and then writes it out with update_config, which may fail.              *)
(***************************************************************************)
\* what the user may type as a profile name, a source and a destination
NameInputs == {"p", "q", "", "a b"}
SourceInputs == {"", "~/s"}
DestinationInputs == {"", "/r1/d/a", "/r2/d/b"}

\* str.isalnum: at least one character and every character a letter or digit
isalnum(name) == name \in {"p", "q"}

\* config.update_config: the file holds the new configuration when the
\* write succeeds and is left as it was when it does not
update_config(ok, c, d) == IF ok THEN c ELSE d

Result(value, said) == [value |-> value, said |-> said]

\* the profile dict with one more profile, which has no syncs yet
with_profile(c, name) ==
    [n \in DOMAIN c \cup {name} |-> IF n = name THEN <<>> ELSE c[n]]

with_syncs(c, name, l) == [n \in DOMAIN c |-> IF n = name THEN l ELSE c[n]]

\* the any(...) of cfg_add_sync: some sync of the profile has this source
\* and this destination
sync_exists_same_entry(c, name, source_file, destination_repo_file) ==
    \E k \in 1..Len(c[name]) :
        /\ c[name][k].source_file = source_file
        /\ c[name][k].destination_repo_file = source_file

sync_exists(c, name, source_file, destination_repo_file) ==
    \E k \in 1..Len(c[name]) :
        /\ c[name][k].source_file = source_file
        /\ c[name][k].destination_repo_file = destination_repo_file

\* list.pop(i) and list[i]: a negative index counts from the end
index_in_range(l, i) == -Len(l) <= i /\ i < Len(l)
position(l, i) == IF i < 0 THEN Len(l) + i + 1 ELSE i + 1
pop(l, i) == [k \in 1..(Len(l) - 1) |-> IF k < position(l, i) THEN l[k] ELSE l[k + 1]]

otherVars == <<shown, profile_name, fs, index, head, pc, plan, item, step, backups, tmp,
               staged_files, cursor, error, todo, log, fs0, index0>>

cfg_add_profile_overwrites(name, ok) ==
    /\ pc = "menu"
    /\ IF ~isalnum(name)
       THEN /\ ret' = Result("False", "name must be alphanumeric")
            /\ UNCHANGED <<cfg, disk>>
       ELSE /\ cfg' = with_profile(cfg, name)
            /\ disk' = update_config(ok, cfg', disk)
            /\ ret' = IF ok THEN Result("True", "created") ELSE Result("False", "failed to create")
    /\ UNCHANGED otherVars

cfg_add_profile(name, ok) ==
    /\ pc = "menu"
    /\ IF ~isalnum(name)
       THEN /\ ret' = Result("False", "name must be alphanumeric")
            /\ UNCHANGED <<cfg, disk>>
       ELSE IF name \in DOMAIN cfg
       THEN /\ ret' = Result("False", "name already taken")
            /\ UNCHANGED <<cfg, disk>>
       ELSE /\ cfg' = with_profile(cfg, name)
            /\ disk' = update_config(ok, cfg', disk)
            /\ ret' = IF ok THEN Result("True", "created") ELSE Result("False", "failed to create")
    /\ UNCHANGED otherVars

\* the body of cfg_remove_sync: what it does to the dict, the file and
\* what it returns
remove_sync(name, sync_index, ok) ==
    IF ~index_in_range(cfg[name], sync_index)
    THEN /\ ret' = Result("False", "invalid sync number")
         /\ UNCHANGED <<cfg, disk>>
    ELSE /\ cfg' = with_syncs(cfg, name, pop(cfg[name], sync_index))
         /\ disk' = update_config(ok, cfg', disk)
         /\ ret' = IF ok THEN Result("True", "removed") ELSE Result("False", "failed to remove")

cfg_remove_sync(name, sync_index, ok) ==
    /\ pc = "menu"
    /\ name \in DOMAIN cfg
    /\ remove_sync(name, sync_index, ok)
    /\ UNCHANGED otherVars

\* the body of cfg_add_sync
add_sync(name, source_file, destination_repo_file, ok) ==
    IF source_file = "" \/ destination_repo_file = ""
    THEN /\ ret' = Result("False", "cannot be empty")
         /\ UNCHANGED <<cfg, disk>>
    ELSE IF name \notin DOMAIN cfg
    THEN /\ ret' = Result("False", "profile does not exist")
         /\ UNCHANGED <<cfg, disk>>
    ELSE IF sync_exists(cfg, name, source_file, destination_repo_file)
    THEN /\ ret' = Result("False", "already exists")
         /\ UNCHANGED <<cfg, disk>>
    ELSE /\ Len(cfg[name]) < MaxSyncs
         /\ cfg' = with_syncs(cfg, name,
                       Append(cfg[name], [source_file |-> source_file,
                                          destination_repo_file |-> destination_repo_file]))
         /\ disk' = update_config(ok, cfg', disk)
         /\ ret' = IF ok THEN Result("True", "added") ELSE Result("False", "failed to add")

cfg_add_sync(name, source_file, destination_repo_file, ok) ==
    /\ pc = "menu"
    /\ add_sync(name, source_file, destination_repo_file, ok)
    /\ UNCHANGED otherVars

\* the program starts with the default configuration: no profile
InitCfg ==
    /\ cfg = [n \in {} |-> <<>>]
    /\ disk = cfg
    /\ ret = NoResult
    /\ shown = NothingShown
    /\ profile_name = ""
    /\ fs = [p \in AbsPaths |-> Absent]
    /\ head = [p \in RepoPaths |-> Absent]
    /\ index = head
    /\ pc = "menu"
    /\ plan = <<>>
    /\ item = 0
    /\ step = ""
    /\ backups = <<>>
    /\ tmp = <<>>
    /\ staged_files = <<>>
    /\ cursor = 0
    /\ error = NoError
    /\ todo = {}
    /\ log = <<>>
    /\ fs0 = fs
    /\ index0 = index

NextCfg ==
    \/ \E name \in NameInputs, ok \in BOOLEAN : cfg_add_profile(name, ok)
    \/ \E name \in NameInputs, source_file \in SourceInputs,
          destination_repo_file \in DestinationInputs, ok \in BOOLEAN :
            cfg_add_sync(name, source_file, destination_repo_file, ok)
    \/ \E name \in NameInputs, sync_index \in -1..MaxSyncs, ok \in BOOLEAN :
            cfg_remove_sync(name, sync_index, ok)

SpecCfg == InitCfg /\ [][NextCfg]_vars

(***************************************************************************)
(* The profile menu of cli.py: run_profile_menu with its commands add,     *)
(* remove N and back, on a configuration with the one profile p.           *)
(* profile_name is the local variable of run_profile_menu, "" while no     *)
(* assignment to it has run.                                               *)
(***************************************************************************)
\* list(cfg["profiles"].keys())
profile_keys == <<"p">>

\* the files present while the menu is used
MenuFs ==
    [p \in AbsPaths |->
        CASE p = "/r2/d/b" -> File(1)
          [] p = "/r1/d/a" -> File(2)
          [] OTHER -> Absent]

\* the numbers a user may type after "remove"
RemoveNumbers == 0..(MaxSyncs + 1)

menuVars == <<shown, fs, index, head, plan, item, step, backups, tmp,
              staged_files, cursor, error, todo, log, fs0, index0>>

\* the main menu has selected profile 1 and run_profile_menu waits for a
\* command
InitMenu ==
    /\ cfg = [n \in {"p"} |-> <<>>]
    /\ disk = cfg
    /\ ret = NoResult
    /\ shown = NothingShown
    /\ profile_name = ""
    /\ fs = MenuFs
    /\ head = [p \in RepoPaths |-> Absent]
    /\ index = head
    /\ pc = "menu"
    /\ plan = <<>>
    /\ item = 0
    /\ step = ""
    /\ backups = <<>>
    /\ tmp = <<>>
    /\ staged_files = <<>>
    /\ cursor = 0
    /\ error = NoError
    /\ todo = {}
    /\ log = <<>>
    /\ fs0 = fs
    /\ index0 = index

\* 'add': profile_name is assigned, then run_add_sync_menu asks for a
\* source until one is valid, for a destination until its status is not 0,
\* and for a y or an n
MenuAdd(profile_index, source_file, dst_file, confirmed, ok) ==
    /\ pc = "menu"
    /\ profile_name' = profile_keys[profile_index + 1]
    /\ is_valid_source_file(fs, source_file)[2]
    /\ LET src == is_valid_source_file(fs, source_file)
           dst == is_valid_destination_file(fs, dst_file)
       IN  IF dst[3] = Diverges
           THEN /\ pc' = "hung"
                /\ UNCHANGED <<cfg, disk, ret>>
           ELSE /\ dst[2] # 0
                /\ pc' = pc
                /\ IF confirmed = "n"
                   THEN UNCHANGED <<cfg, disk, ret>>
                   ELSE add_sync(profile_name', src[1], dst[1], ok)
    /\ UNCHANGED menuVars

\* 'remove N': the number is turned into an index and cfg_remove_sync is
\* called with profile_name; reading profile_name before any assignment
\* raises UnboundLocalError, which nothing catches
MenuRemove(N, ok) ==
    /\ pc = "menu"
    /\ IF profile_name = ""
       THEN /\ pc' = "crashed"
            /\ UNCHANGED <<cfg, disk, ret>>
       ELSE /\ pc' = pc
            /\ remove_sync(profile_name, N - 1, ok)
    /\ UNCHANGED profile_name
    /\ UNCHANGED menuVars

\* 'back' and a new 'select 1': run_profile_menu starts again
MenuBack ==
    /\ pc = "menu"
    /\ profile_name' = ""
    /\ UNCHANGED <<cfg, disk, ret, pc>>
    /\ UNCHANGED menuVars

NextMenu ==
    \/ \E source_file \in SourceNames, dst_file \in DestinationNames,
          confirmed \in {"y", "n"}, ok \in BOOLEAN :
            MenuAdd(0, source_file, dst_file, confirmed, ok)
    \/ \E N \in RemoveNumbers, ok \in BOOLEAN : MenuRemove(N, ok)
    \/ MenuBack

SpecMenu == InitMenu /\ [][NextMenu]_vars

(***************************************************************************)
(* Vocabulary of the properties                                            *)
(***************************************************************************)
\* the sync definitions of the profile of the run
syncs == cfg[profile_name]

Resolved(p) == abspath(expanduser(p))

\* an item the plan marks for application
IsChange(it) == it.type = "new" \/ it.type = "modified"

\* apply_plan has returned normally
Applied ==
    pc \in {"gate_commit", "skipped_commit", "commit", "gate_push",
            "skipped_push", "push", "pushed"}

\* the command op was issued for plan item k and succeeded
Succeeded(op, k) ==
    \E j \in 1..Len(log) : log[j].op = op /\ log[j].item = k /\ log[j].ok

\* the rollback ran to its end and every unstage command succeeded
CleanRollback ==
    /\ pc = "raised"
    /\ error.at # "restore"
    /\ \A j \in 1..Len(log) : log[j].op = "unstage" => log[j].ok

(***************************************************************************)
(* C1  Atomic batch.  When apply_plan finishes, either it returned and     *)
(* every new/modified item has been copied and staged, or it raised and    *)
(* every path and the index are as they were when apply_plan started,      *)
(* granted that the rollback ran to its end and every unstage succeeded.   *)
(* The code does not keep this: a destination that apply_plan created is   *)
(* never removed by the rollback.                                          *)
(***************************************************************************)
C1_AtomicBatch ==
    /\ Applied =>
          \A k \in 1..Len(plan) :
              IsChange(plan[k]) => Succeeded("copy", k) /\ Succeeded("stage", k)
    /\ CleanRollback =>
          /\ \A p \in AbsPaths : fs[p] = fs0[p]
          /\ index = index0

(***************************************************************************)
(* C2  Rollback of earlier items.  When applying item k fails and          *)
(* apply_plan raises, the destination of every item before k holds the     *)
(* content it had before the apply and is not staged.  Stated here for     *)
(* the destinations that were files before the apply, and granted a        *)
(* rollback that ran to its end with every unstage succeeding.  The code   *)
(* does not keep this when two items name the same destination: the        *)
(* second backup holds the first item's copy and is restored last.         *)
(***************************************************************************)
C2_EarlierItemsRestored ==
    CleanRollback =>
        \A k \in 1..(error.item - 1) :
            (IsChange(plan[k]) /\ fs0[plan[k].destination].kind = "file") =>
                /\ fs[plan[k].destination] = fs0[plan[k].destination]
                /\ index[plan[k].destination] = head[plan[k].destination]

(***************************************************************************)
(* C3  A failed apply ends the run.  Once a step of apply_plan has raised, *)
(* the run is in the rollback or has left sync_all with the exception,     *)
(* and no commit and no push command has been issued.                      *)
(***************************************************************************)
C3_FailedApplyEndsRun ==
    error.raised =>
        /\ pc \in {"rollback", "raised"}
        /\ \A j \in 1..Len(log) : log[j].op \notin {"commit", "push"}

\* a stage failed after an earlier item was staged, and the exception has
\* left sync_all
C3_Witness ==
    /\ pc = "raised"
    /\ error.at = "stage"
    /\ error.item = 2
    /\ Len(staged_files) = 1

(***************************************************************************)
(* C4  Apply postcondition.                                                *)
(***************************************************************************)
\* no new/modified item after item k writes the destination or the source
\* of item k
NoLaterWrite(k) ==
    \A j \in (k + 1)..Len(plan) :
        IsChange(plan[j]) =>
            plan[j].destination \notin {plan[k].destination, plan[k].source}

\* C4 as claimed: after a successful apply_plan the destination of every
\* new/modified item exists and holds the content of the item's source,
\* whatever the other definitions of the profile are.
C4_DestinationEqualsSource ==
    Applied =>
        \A k \in 1..Len(plan) :
            IsChange(plan[k]) =>
                /\ fs[plan[k].destination].kind = "file"
                /\ fs[plan[k].destination] = fs[plan[k].source]

\* C4 as amended: after a successful apply_plan the destination of every
\* new/modified item exists and holds the content of the item's source,
\* for the items whose destination and source are not the destination of a
\* later new/modified item of the plan.
C4_DestinationEqualsSourceUnlessRewritten ==
    Applied =>
        \A k \in 1..Len(plan) :
            (IsChange(plan[k]) /\ NoLaterWrite(k)) =>
                /\ fs[plan[k].destination].kind = "file"
                /\ fs[plan[k].destination] = fs[plan[k].source]

\* a modified item, followed by a new item that writes elsewhere, both applied
C4_Witness ==
    /\ pc = "gate_commit"
    /\ Len(plan) = 2
    /\ plan[1].type = "modified"
    /\ plan[2].type = "new"
    /\ NoLaterWrite(1)

(***************************************************************************)
(* C5  Idempotence of plan-after-apply.                                    *)
(***************************************************************************)
\* the plan plan_syncs would return now
PlanAgain == plan_syncs(cfg, profile_name, fs)

NothingLeftToDo ==
    /\ plan_syncs_returns(cfg, profile_name, fs)
    /\ \A k \in 1..Len(plan) :
          /\ PlanAgain[k].type \notin {"new", "modified"}
          /\ plan[k].type \in {"new", "modified", "skipped"} => PlanAgain[k].type = "skipped"

\* no file written by a new/modified item is the source or the destination
\* of another definition of the profile
WritesAreSeparate ==
    \A k \in 1..Len(plan) :
        IsChange(plan[k]) =>
            \A j \in 1..Len(syncs) :
                j # k => plan[k].destination \notin
                            {Resolved(syncs[j].source_file),
                             Resolved(syncs[j].destination_repo_file)}

\* C5 as claimed: planning again right after a successful apply_plan gives
\* no new and no modified item, for every profile.
C5_SecondPlanAllSkipped ==
    pc = "gate_commit" => NothingLeftToDo

\* C5 as amended: planning again right after a successful apply_plan gives
\* no new and no modified item, for every profile in which no file written
\* by a new/modified item is the source or destination of another
\* definition.
C5_SecondPlanAllSkippedWhenSeparate ==
    (pc = "gate_commit" /\ WritesAreSeparate) => NothingLeftToDo

\* two changes to separate files were applied
C5_Witness ==
    /\ pc = "gate_commit"
    /\ WritesAreSeparate
    /\ Len(plan) = 2
    /\ IsChange(plan[1])
    /\ IsChange(plan[2])

(***************************************************************************)
(* C6  Planner classification.  For each sync definition plan_syncs emits  *)
(* an error item (source) when the source is not an existing file;         *)
(* otherwise an error item (destination) when the parent directory of the  *)
(* destination does not exist or no repository encloses it; otherwise new  *)
(* when the destination does not exist, skipped when source and            *)
(* destination hold the same bytes, and modified in every remaining case.  *)
(* The code does not keep this: for a destination in an existing           *)
(* directory outside any repository locate_git_repo never returns, and     *)
(* no item is emitted.                                                     *)
(***************************************************************************)
ClaimedKind(f, s) ==
    LET src == Resolved(s.source_file)
        dst == Resolved(s.destination_repo_file)
    IN  IF f[src].kind # "file" THEN <<"error", "Source does not exist">>
        ELSE IF dirname(dst) \notin ExistingDirs \/ WorkTreeOf(dirname(dst)) = None
             THEN <<"error", "Destination not in git repo">>
        ELSE IF f[dst].kind = "absent" THEN <<"new">>
        ELSE IF f[dst] = f[src] THEN <<"skipped">>
        ELSE <<"modified">>

KindOf(it) == IF it.type = "error" THEN <<it.type, it.reason>> ELSE <<it.type>>

C6_Classification ==
    pc # "menu" =>
        \A k \in 1..Len(syncs) :
            /\ k \in DOMAIN plan
            /\ KindOf(plan[k]) = ClaimedKind(fs0, syncs[k])

(***************************************************************************)
(* C7  Plan shape.  For every profile plan_syncs returns, and the plan     *)
(* has one item per sync definition, the i-th item naming the source and   *)
(* the destination of the i-th definition.  The code does not keep this    *)
(* for a profile that holds a definition on which the planner never        *)
(* returns (C6).                                                           *)
(***************************************************************************)
C7_PlanShape ==
    pc # "menu" =>
        /\ pc # "hung"
        /\ Len(plan) = Len(syncs)
        /\ \A k \in 1..Len(syncs) :
              /\ plan[k].source = Resolved(syncs[k].source_file)
              /\ Resolved(plan[k].destination) = Resolved(syncs[k].destination_repo_file)

(***************************************************************************)
(* C8  Skipped and error items are left alone.  Every backup, copy and     *)
(* stage command of apply_plan is issued for a new or modified item;       *)
(* every restore and unstage of the rollback touches the destination of    *)
(* such an item; and a path that is the destination of no new or modified  *)
(* item keeps its content and its index entry throughout the run.          *)
(***************************************************************************)
ChangedPaths == {plan[k].destination : k \in {j \in 1..Len(plan) : IsChange(plan[j])}}

C8_OnlyChangesAreApplied ==
    /\ \A j \in 1..Len(log) :
          /\ log[j].op \in {"backup", "copy", "stage"} => IsChange(plan[log[j].item])
          /\ log[j].op \in {"restore", "unstage"} => log[j].path \in ChangedPaths
    /\ \A p \in AbsPaths \ ChangedPaths : fs[p] = fs0[p]
    /\ \A p \in RepoPaths \ ChangedPaths : index[p] = index0[p]

\* the loop has passed a skipped item and applied the change after it
C8_Witness ==
    /\ pc = "gate_commit"
    /\ Len(plan) = 2
    /\ plan[1].type = "skipped"
    /\ IsChange(plan[2])
    /\ Succeeded("stage", 2)

(***************************************************************************)
(* C9  commit_changes.  When commit_changes has returned, exactly one      *)
(* commit command has been issued in each repository named by a new or     *)
(* modified item of the plan and none anywhere else, whether or not a      *)
(* commit failed; a failed commit is printed as a warning; and at no       *)
(* point has a repository been committed to twice.                         *)
(***************************************************************************)
Issued(op, repo) == {j \in 1..Len(log) : log[j].op = op /\ log[j].cwd = repo}

OwnsChange(repo) ==
    \E k \in 1..Len(plan) : IsChange(plan[k]) /\ plan[k].git_repo = repo

Committed == pc \in {"gate_push", "skipped_push", "push", "pushed"}

C9_OneCommitPerRepository ==
    /\ \A repo \in ExistingDirs :
          /\ Cardinality(Issued("commit", repo)) <= 1
          /\ Committed =>
                Cardinality(Issued("commit", repo)) = IF OwnsChange(repo) THEN 1 ELSE 0
    /\ \A j \in 1..Len(log) :
          (log[j].op = "commit" /\ ~log[j].ok) => log[j].said = "warning"
    /\ pc = "commit" => ~error.raised

\* the first commit failed and the other repository was committed after it
C9_Witness ==
    /\ pc = "gate_push"
    /\ \E i, j \in 1..Len(log) :
          /\ i < j
          /\ log[i].op = "commit" /\ ~log[i].ok
          /\ log[j].op = "commit" /\ log[j].ok

(***************************************************************************)
(* C10  push_changes.  When push_changes has returned, exactly one push    *)
(* command has been issued in each repository named by a new or modified   *)
(* item of the plan, whether or not a push failed; a failed push is        *)
(* printed as an error for its repository; and at no point has a           *)
(* repository been pushed twice.                                           *)
(***************************************************************************)
C10_OnePushPerRepository ==
    /\ \A repo \in ExistingDirs :
          /\ Cardinality(Issued("push", repo)) <= 1
          /\ pc = "pushed" =>
                Cardinality(Issued("push", repo)) = IF OwnsChange(repo) THEN 1 ELSE 0
    /\ \A j \in 1..Len(log) :
          (log[j].op = "push" /\ ~log[j].ok) => log[j].said = "error"
    /\ pc = "push" => ~error.raised

\* the first push failed and the other repository was pushed after it
C10_Witness ==
    /\ pc = "pushed"
    /\ \E i, j \in 1..Len(log) :
          /\ i < j
          /\ log[i].op = "push" /\ ~log[i].ok
          /\ log[j].op = "push" /\ log[j].ok

(***************************************************************************)
(* C11  Run state machine.  A run of sync_all, once planned, moves only    *)
(* PLANNED -> APPLIED | ABORTED, APPLIED -> COMMITTED | SKIPPED,           *)
(* COMMITTED -> PUSHED | SKIPPED (a run whose apply_plan fails is aborted  *)
(* with rollback, C3).  An answer other than "y", in any case and with     *)
(* blanks around it, declines the gate.  A declined apply gate leaves      *)
(* every file and the index alone and issues no command; a declined        *)
(* commit gate leaves no commit and no push and offers no push gate; a     *)
(* declined push gate leaves no push; and no declined gate raises.         *)
(***************************************************************************)
RunState(p) ==
    CASE p \in {"menu", "hung"} -> "START"
      [] p \in {"gate_apply", "apply", "rollback"} -> "PLANNED"
      [] p \in {"gate_commit", "commit"} -> "APPLIED"
      [] p \in {"aborted", "raised"} -> "ABORTED"
      [] p \in {"gate_push", "push"} -> "COMMITTED"
      [] p \in {"skipped_commit", "skipped_push"} -> "SKIPPED"
      [] p = "pushed" -> "PUSHED"

RunMoves ==
    {<<"START", "PLANNED">>, <<"PLANNED", "APPLIED">>, <<"PLANNED", "ABORTED">>,
     <<"APPLIED", "COMMITTED">>, <<"APPLIED", "SKIPPED">>,
     <<"COMMITTED", "PUSHED">>, <<"COMMITTED", "SKIPPED">>}

Affirmative == {"y", " Y"}

NoneIssued(ops) == \A j \in 1..Len(log) : log[j].op \notin ops

DeclinedGatesAreQuiet ==
    /\ pc = "aborted" =>
          /\ fs = fs0 /\ index = index0
          /\ log = <<>> /\ tmp = <<>>
          /\ ~error.raised
    /\ pc = "skipped_commit" => NoneIssued({"commit", "push"}) /\ ~error.raised
    /\ pc = "skipped_push" => NoneIssued({"push"}) /\ ~error.raised

C11_RunStateMachine ==
    [][ /\ RunState(pc) = RunState(pc') \/ <<RunState(pc), RunState(pc')>> \in RunMoves
        /\ pc \in {"aborted", "skipped_commit", "skipped_push"} => pc' = pc
        /\ \A ans \in Answers \ Affirmative :
              /\ ConfirmApply(ans) => pc' = "aborted"
              /\ ConfirmCommit(ans) => pc' = "skipped_commit"
              /\ ConfirmPush(ans) => pc' = "skipped_push"
        /\ DeclinedGatesAreQuiet' ]_vars

\* the commit gate was declined after a change had been applied and staged
C11_Witness ==
    /\ pc = "skipped_commit"
    /\ Len(staged_files) >= 1

(***************************************************************************)
(* C12  Commit and push leave files and staging alone.  From the return    *)
(* of apply_plan on, whatever each commit and each push does, no step      *)
(* changes the content of a file or an entry of the index, and the only    *)
(* commands issued are commits and pushes.                                 *)
(***************************************************************************)
C12_CommitAndPushKeepFiles ==
    [][ Applied =>
          /\ fs' = fs
          /\ index' = index
          /\ tmp' = tmp
          /\ \A j \in (Len(log) + 1)..Len(log') : log'[j].op \in {"commit", "push"} ]_vars

\* a commit failed and a push failed after a file was modified and staged
C12_Witness ==
    /\ pc = "pushed"
    /\ \E k \in 1..Len(plan) : plan[k].type = "modified" /\ Succeeded("stage", k)
    /\ \E j \in 1..Len(log) : log[j].op = "commit" /\ ~log[j].ok
    /\ \E j \in 1..Len(log) : log[j].op = "push" /\ ~log[j].ok


(***************************************************************************)
(* C13  Sync definitions of a profile are unique.  Starting from the empty *)
(* configuration, after any sequence of cfg_add_profile, cfg_add_sync and  *)
(* cfg_remove_sync no profile holds the same (source_file,                 *)
(* destination_repo_file) pair twice, and a cfg_add_sync of a pair the     *)
(* profile already holds returns False and leaves the profile's list as    *)
(* it was.                                                                 *)
(***************************************************************************)
Unique(l) == \A i, j \in 1..Len(l) : l[i] = l[j] => i = j

Holds(l, source_file, destination_repo_file) ==
    \E k \in 1..Len(l) : l[k] = [source_file |-> source_file,
                                 destination_repo_file |-> destination_repo_file]

C13_SyncsAreUnique ==
    [][ /\ \A n \in DOMAIN cfg' : Unique(cfg'[n])
        /\ \A name \in NameInputs, source_file \in SourceInputs,
              destination_repo_file \in DestinationInputs, ok \in BOOLEAN :
                ( /\ cfg_add_sync(name, source_file, destination_repo_file, ok)
                  /\ name \in DOMAIN cfg
                  /\ Holds(cfg[name], source_file, destination_repo_file) )
                => ret'.value = "False" /\ cfg' = cfg ]_vars

C13_Witness ==
    /\ ret = Result("False", "already exists")
    /\ \E n \in DOMAIN cfg : Len(cfg[n]) = 2 /\ Unique(cfg[n])

(***************************************************************************)
(* C14  cfg_add_profile creates a profile only for a non-empty             *)
(* alphanumeric name that no profile has yet.  For any other name it       *)
(* returns False and leaves the set of profiles and the sync list of every *)
(* profile unchanged.                                                      *)
(***************************************************************************)
NonEmptyAlphanumeric == {"p", "q"}

C14_AddProfile ==
    [][ \A name \in NameInputs, ok \in BOOLEAN :
          cfg_add_profile(name, ok) =>
            IF name \in NonEmptyAlphanumeric /\ name \notin DOMAIN cfg
            THEN /\ DOMAIN cfg' = DOMAIN cfg \cup {name}
                 /\ cfg'[name] = <<>>
                 /\ \A n \in DOMAIN cfg : cfg'[n] = cfg[n]
            ELSE ret'.value = "False" /\ cfg' = cfg ]_vars

C14_Witness ==
    /\ ret = Result("False", "name already taken")
    /\ DOMAIN cfg = {"p", "q"}
    /\ \E n \in DOMAIN cfg : Len(cfg[n]) >= 1


(***************************************************************************)
(* C15  Planning changes nothing.  The step of sync_all that runs          *)
(* plan_syncs leaves every file, the staging area, the repositories, the   *)
(* temporary files and the configuration as they were, and the plan it     *)
(* returns is the plan a second call would return right after it.          *)
(***************************************************************************)
C15_PlanningChangesNothing ==
    [][ pc = "menu" =>
          /\ fs' = fs /\ index' = index /\ head' = head
          /\ tmp' = tmp /\ log' = log
          /\ cfg' = cfg /\ disk' = disk
          /\ pc' = "gate_apply" =>
                /\ plan_syncs_returns(cfg', profile_name', fs')
                /\ plan' = plan_syncs(cfg', profile_name', fs') ]_vars

C15_Witness ==
    /\ pc = "gate_apply"
    /\ \E k \in 1..Len(plan) : plan[k].type = "new"
    /\ \E k \in 1..Len(plan) : plan[k].type = "modified"


(***************************************************************************)
(* C16  Backups do not outlive a successful run.  Once apply_plan has      *)
(* returned, no temporary file holding a destination's earlier content is  *)
(* left.  The code does not keep this: apply_plan never removes the files  *)
(* it makes with mkstemp.                                                  *)
(***************************************************************************)
C16_NoBackupAfterSuccess == Applied => Len(tmp) = 0

(***************************************************************************)
(* C17  Rollback unstages everything and raises the first error.  When     *)
(* apply_plan has raised, an unstage was attempted for every recorded      *)
(* (repo, path) pair, and the exception that left apply_plan is the one    *)
(* raised by the apply step.  The code does not keep this: a restore that  *)
(* raises inside the except clause leaves apply_plan at once.              *)
(***************************************************************************)
C17_UnstageAllAndRaiseOriginal ==
    pc = "raised" =>
        /\ \A c \in 1..Len(staged_files) :
               \E j \in 1..Len(log) : log[j].op = "unstage" /\ log[j].item = c
        /\ error.at \in {"backup", "copy", "stage"}

(***************************************************************************)
(* C18  Restorations are independent.  When the rollback starts, restoring *)
(* the recorded backups in any order leaves every destination with the     *)
(* same content, and when apply_plan has raised every recorded backup has  *)
(* been restored.  The code does not keep this: two items with one         *)
(* destination record two backups of it, and a restore that raises stops   *)
(* the ones after it.                                                      *)
(***************************************************************************)
Orders ==
    {o \in [1..Len(backups) -> 1..Len(backups)] :
        \A i, j \in 1..Len(backups) : o[i] = o[j] => i = j}

RECURSIVE restore_in_order(_, _)
restore_in_order(f, order) ==
    IF order = <<>> THEN f
    ELSE restore_in_order([f EXCEPT ![backups[Head(order)][1]] = tmp[backups[Head(order)][2]]],
                          Tail(order))

C18_RestorationsAreIndependent ==
    /\ (pc = "rollback" /\ step = "restore" /\ cursor = 1) =>
          \A o1, o2 \in Orders : restore_in_order(fs, o1) = restore_in_order(fs, o2)
    /\ pc = "raised" =>
          \A c \in 1..Len(backups) :
              \E j \in 1..Len(log) : log[j].op = "restore" /\ log[j].item = c /\ log[j].ok

(***************************************************************************)
(* C19  Order of the apply.  The backup, copy and stage steps recorded in  *)
(* the log belong to new/modified items only, come in plan order, and      *)
(* within an item in the order backup, copy, stage; a step of an item is   *)
(* run only after every new/modified item before it was staged, a copy     *)
(* over a destination that existed before the apply only after its backup, *)
(* and no step is run after a step that failed.                            *)
(***************************************************************************)
ApplyOps == {"backup", "copy", "stage"}

Rank(op) == CASE op = "backup" -> 1 [] op = "copy" -> 2 [] op = "stage" -> 3

\* before position j of the log, op was run for plan item k and succeeded
DoneBefore(op, k, j) ==
    \E m \in 1..(j - 1) : log[m].op = op /\ log[m].item = k /\ log[m].ok

C19_ApplyOrder ==
    \A j \in 1..Len(log) :
        log[j].op \in ApplyOps =>
            /\ plan[log[j].item].type \in {"new", "modified"}
            /\ \A i \in 1..(j - 1) :
                   log[i].op \in ApplyOps =>
                       /\ log[i].ok
                       /\ log[i].item <= log[j].item
                       /\ log[i].item = log[j].item => Rank(log[i].op) < Rank(log[j].op)
            /\ \A k \in 1..(log[j].item - 1) :
                   plan[k].type \in {"new", "modified"} => DoneBefore("stage", k, j)
            /\ (log[j].op = "copy" /\ fs0[log[j].path].kind # "absent") =>
                   DoneBefore("backup", log[j].item, j)
            /\ log[j].op = "stage" => DoneBefore("copy", log[j].item, j)

C19_Witness ==
    /\ Applied
    /\ Len(plan) = 2
    /\ DoneBefore("backup", 1, Len(log) + 1)
    /\ DoneBefore("stage", 1, Len(log) + 1)
    /\ DoneBefore("stage", 2, Len(log) + 1)

(***************************************************************************)
(* C20  Destination validation.  For every destination name and every     *)
(* filesystem, is_valid_destination_file returns; it returns status 0 and  *)
(* no repository exactly when the parent directory does not exist or lies  *)
(* in no repository, status 1 exactly when it lies in one and the file     *)
(* does not exist, status 2 exactly when it lies in one and the file       *)
(* exists; the repository is given exactly when the status is not 0, and   *)
(* the destinations plan_syncs finds missing are exactly those of status   *)
(* 1.  The code does not keep this: the validation does not return for a   *)
(* directory outside every repository, and a directory in the place of the *)
(* destination has status 1 although plan_syncs finds it existing.         *)
(***************************************************************************)
Enclosed(p) == dirname(p) \in ExistingDirs /\ WorkTreeOf(dirname(p)) # None

C20_DestinationValidation ==
    \A d \in DestinationNames :
        LET r == is_valid_destination_file(fs, d)
            p == r[1]
        IN  /\ r[3] # Diverges
            /\ (r[2] = 0 /\ r[3] = None) <=> ~Enclosed(p)
            /\ r[2] = 1 <=> (Enclosed(p) /\ fs[p].kind # "file")
            /\ r[2] = 2 <=> (Enclosed(p) /\ fs[p].kind = "file")
            /\ r[3] # None <=> r[2] # 0
            /\ Enclosed(p) => (fs[p].kind = "absent" <=> r[2] = 1)


(***************************************************************************)
(* C21  Plan report.  Once sync_all has shown the plan, the report holds   *)
(* one line for every plan item, in plan order, with the tag of the        *)
(* item's type and the item's source and destination, and the count after  *)
(* the lines is the number of new and modified items.                      *)
(***************************************************************************)
TagOf(type) ==
    CASE type = "new" -> "[NEW]" [] type = "modified" -> "[MODIFIED]"
      [] type = "skipped" -> "[SKIPPED]" [] type = "error" -> "[ERROR]"

C21_PlanReport ==
    pc \notin {"menu", "hung"} =>
        /\ Len(shown.lines) = Len(plan)
        /\ \A k \in 1..Len(plan) :
               /\ shown.lines[k].tag = TagOf(plan[k].type)
               /\ shown.lines[k].source = plan[k].source
               /\ shown.lines[k].destination = plan[k].destination
        /\ shown.total = Cardinality({k \in 1..Len(plan) : IsChange(plan[k])})

C21_Witness ==
    /\ pc = "gate_apply"
    /\ Len(shown.lines) = 2
    /\ shown.total = 1
    /\ \E k \in 1..2 : shown.lines[k].tag = "[ERROR]"


(***************************************************************************)
(* C22  'remove N' in the profile menu.  For 1 <= N <= the number of syncs *)
(* the N-th listed sync of the selected profile is removed and the others  *)
(* stay; for every other N nothing is removed and an invalid sync number   *)
(* is reported.  The code does not keep this: 'remove 0' removes the last  *)
(* sync, and a 'remove' entered before any 'add' or 'sync all' ends the    *)
(* program with an exception.                                              *)
(***************************************************************************)
Without(l, N) == [k \in 1..(Len(l) - 1) |-> IF k < N THEN l[k] ELSE l[k + 1]]

C22_RemoveNth ==
    [][ \A N \in RemoveNumbers, ok \in BOOLEAN :
          MenuRemove(N, ok) =>
            IF 1 <= N /\ N <= Len(cfg[profile_keys[1]])
            THEN cfg'[profile_keys[1]] = Without(cfg[profile_keys[1]], N)
            ELSE cfg' = cfg /\ ret' = Result("False", "invalid sync number") ]_vars


(***************************************************************************)
(* C25  Configuration edits are all-or-nothing.  The configuration in      *)
(* memory always equals the one last written to the file, and an edit      *)
(* that returns False leaves the configuration in memory as it was.  The   *)
(* code does not keep this: each edit changes the dict first and writes    *)
(* the file afterwards, and a failed write is not undone.                  *)
(***************************************************************************)
C25_MemoryEqualsSaved ==
    [][ /\ cfg' = disk'
        /\ ret'.value = "False" => cfg' = cfg ]_vars


(***************************************************************************)
(* C23  Bookkeeping of apply_plan.  From the start of the apply on, every  *)
(* destination that existed before the apply and over which a copy was     *)
(* started has a recorded backup, made before that copy, holding the       *)
(* content the destination had before the apply; and the staged list is,   *)
(* in order, the list of the stage commands that succeeded, each entry     *)
(* being the git_repo and the destination of its plan item.                *)
(***************************************************************************)
InOrAfterApply == pc \in {"apply", "rollback", "raised"} \/ Applied

StagedLog == SelectSeq(log, LAMBDA e : e.op = "stage" /\ e.ok)

C23_Bookkeeping ==
    InOrAfterApply =>
        /\ \A j \in 1..Len(log) :
               (log[j].op = "copy" /\ fs0[log[j].path].kind # "absent") =>
                   \E b \in 1..Len(backups) :
                       /\ backups[b][1] = log[j].path
                       /\ tmp[backups[b][2]] = fs0[log[j].path]
                       /\ \E i \in 1..(j - 1) :
                              log[i].op = "backup" /\ log[i].ok /\ log[i].path = log[j].path
        /\ Len(staged_files) = Len(StagedLog)
        /\ \A c \in 1..Len(staged_files) :
               staged_files[c] = <<plan[StagedLog[c].item].git_repo,
                                   plan[StagedLog[c].item].destination>>

\* in the middle of the loop: item 1 is staged, item 2 is backed up and its
\* copy comes next
C23_Witness ==
    /\ pc = "apply" /\ step = "copy" /\ item = 2
    /\ Len(backups) = 2
    /\ Len(staged_files) = 1


(***************************************************************************)
(* C24  A plan without a new or modified item changes nothing.  Whatever   *)
(* is answered at the gates, sync_all then copies no file, makes no        *)
(* backup and issues no stage, commit or push command: the files, the      *)
(* index and the commits stay as they were when the run started.           *)
(***************************************************************************)
C24_EmptyPlanChangesNothing ==
    (pc \notin {"menu", "hung"} /\ \A k \in 1..Len(plan) : ~IsChange(plan[k])) =>
        /\ log = <<>>
        /\ tmp = <<>> /\ backups = <<>> /\ staged_files = <<>>
        /\ fs = fs0 /\ index = index0
        /\ ~error.raised

\* every gate was confirmed for a plan of one skipped and one error item
C24_Witness ==
    /\ pc = "pushed"
    /\ Len(plan) = 2
    /\ \E k \in 1..2 : plan[k].type = "skipped"
    /\ \E k \in 1..2 : plan[k].type = "error"


====
